---- MODULE Spec2Model ----
(***************************************************************************)
(* Model of the live voice session of OmniMind (components/LiveInterface):  *)
(* startSession / stopSession, the transport callbacks onopen, onmessage,   *)
(* onclose and onerror, the playback scheduling of inbound audio, the       *)
(* capture callback and the volume visualizer; and of the text chat         *)
(* (components/ChatInterface), the history service and the account service. *)
(*                                                                         *)
(* Time is counted in units of 50 ms: the 0.15 s safety buffer is 3 units,  *)
(* the 0.1 s look-ahead of the speaking heuristic is 2 units and the 500 ms *)
(* the speaking timer adds to a buffer's duration is 10 units.              *)
(*                                                                         *)
(* Every call of startSession is a "generation" g: it creates its own       *)
(* input context, output context, microphone stream and transport, which    *)
(* its callbacks keep in their closure, while the refs of the component     *)
(* (audioContextRef, nextStartTimeRef, sourcesRef, ...) are shared by all   *)
(* generations.                                                             *)
(***************************************************************************)
EXTENDS Integers, Sequences, FiniteSets, TLC

\* ---------------------------------------------------------------- bounds
MaxSessions == 2      \* calls of startSession in one behaviour
MaxTime == 7          \* largest value a device clock reaches
MaxMsgs == 2          \* transport messages delivered in one behaviour
MaxCapture == 2       \* capture callbacks per generation
MaxPending == 2       \* onmessage handlers suspended at the same time

MaxChats == 3         \* largest id of a chat session made in the chat
MaxPrompts == 1       \* prompts sent in the chat
MaxIds == 52          \* largest id of a session saved through the history service
MaxLen == 2           \* characters of an e-mail typed into the account form
MaxUsers == 2         \* accounts registered

\* ------------------------------------------------------ program constants
HISTORY_LIMIT == 50   \* saveSession: history.length > 50
SAFETY_MARGIN == 3    \* now + 0.15
SPEAKING_EPSILON == 2 \* nextStartTime - 0.1
SPEAKING_EXTRA == 10  \* buffer.duration * 1000 + 500

Gens == 1..MaxSessions
Durations == {2, 4}   \* buffer.duration of a decoded chunk: 100 ms, 200 ms
Energies == {0, 20, 255} \* average the analyser reports over the lower bins

VARIABLES
  \* React state of the component
  status, isActive, errorMsg, volume, isModelSpeaking,
  \* refs of the component (0 stands for null; a context, node or session is
  \* named by the generation that created it)
  audioContextRef, inputAudioContextRef, nextStartTimeRef, sessionRef,
  sourcesRef, inputSourceRef, processorRef, analyserRef, animationFrameRef,
  modelSpeakingTimeoutRef,
  \* environment: the host of the component
  apiKey, mounted,
  \* state of each generation
  nSessions,      \* number of startSession calls so far
  pc,             \* position of the async startSession of each generation
  capturedActive, \* isActive as captured by the closure of the callbacks
  inputCtx, outputCtx, stream, transport, closeQueued, devTime,
  capturing, sentFrames,
  captured,       \* frames the capture callback has produced
  thenQueue,      \* frames waiting on the session promise, oldest first
  sentLog,        \* frames handed to sendRealtimeInput, in the order sent
  rafLoops,       \* visualizer loops that have an animation frame pending
  pending,        \* onmessage handlers suspended at an await
  msgCount,
  nodes,          \* the buffer sources created so far, in scheduling order
  \* history of the behaviour, read by the properties only
  broken,            \* the cursor was reset since the last scheduled frame
  awaitFirst,        \* no audio message has arrived since the last interruption
  skipped,           \* audio frames dropped by the catch of onmessage
  inCloseCalls, outCloseCalls, disconnectCalls, sessionCloseCalls,
  stopped,           \* stopSession ran after the generation was started
  stoppedConnecting, \* ... and it ran while the status was connecting
  errored,           \* onerror was delivered for the generation
  openFailed,        \* the transport of the generation failed to open
  lastWasStop,       \* the last step was a call of stopSession
  \* ChatInterface (React state)
  currentSession,    \* the chat session on screen: [id, messages]
  history,           \* the list of sessions shown in the history drawer
  isLoading,         \* a request to the model is in flight
  config,            \* [useSearch, useReasoning]
  \* historyService (localStorage, one storage key)
  histStore,         \* the stored list of sessions, newest first
  \* authService (localStorage)
  usersDb,           \* the stored list of users
  activeUser,        \* the active session entry: a user or NoUser
  authResult,        \* how the last account call ended: returned or threw
  \* environment and history of the chat
  nextId,            \* the next value of Date.now(), which names new sessions
  inflight,          \* the request in flight: its prompt and the session it left
  nPrompts           \* prompts sent so far

reactVars == <<status, isActive, errorMsg, volume, isModelSpeaking>>
refVars == <<audioContextRef, inputAudioContextRef, nextStartTimeRef,
             sessionRef, sourcesRef, inputSourceRef, processorRef,
             analyserRef, animationFrameRef, modelSpeakingTimeoutRef>>
envVars == <<apiKey, mounted>>
genVars == <<nSessions, pc, capturedActive, inputCtx, outputCtx, stream,
             transport, closeQueued, devTime, capturing, sentFrames,
             captured, thenQueue, sentLog, rafLoops, pending, msgCount,
             nodes>>
callVars == <<inCloseCalls, outCloseCalls, disconnectCalls, sessionCloseCalls>>
histVars == <<broken, awaitFirst, skipped, callVars, stopped,
              stoppedConnecting, errored, openFailed,
              lastWasStop>>
histVars_noStop == <<broken, awaitFirst, skipped, callVars, stopped,
                     stoppedConnecting, errored, openFailed>>
liveVars == <<reactVars, refVars, envVars, genVars, histVars>>
chatVars == <<currentSession, history, isLoading, config, inflight, nPrompts>>
storeVars == <<histStore, nextId>>
authVars == <<usersDb, activeUser, authResult>>
appVars == <<chatVars, storeVars, authVars>>
vars == <<liveVars, appVars>>

\* The chat component before it is mounted, no request, no user.
NoSession == [id |-> 0, messages |-> <<>>]
NoRequest == [n |-> 0, from |-> 0]
NoUser == [email |-> <<>>, password |-> ""]

NoTimer == [g |-> 0, due |-> 0]

Min(a, b) == IF a < b THEN a ELSE b
Max(a, b) == IF a > b THEN a ELSE b

Init ==
  /\ status = "disconnected"
  /\ isActive = FALSE
  /\ errorMsg = ""
  /\ volume = 0
  /\ isModelSpeaking = FALSE
  /\ audioContextRef = 0
  /\ inputAudioContextRef = 0
  /\ nextStartTimeRef = 0
  /\ sessionRef = 0
  /\ sourcesRef = {}
  /\ inputSourceRef = 0
  /\ processorRef = 0
  /\ analyserRef = 0
  /\ animationFrameRef = 0
  /\ modelSpeakingTimeoutRef = NoTimer
  /\ apiKey \in BOOLEAN
  /\ mounted = TRUE
  /\ nSessions = 0
  /\ pc = [g \in Gens |-> "idle"]
  /\ capturedActive = [g \in Gens |-> FALSE]
  /\ inputCtx = [g \in Gens |-> "none"]
  /\ outputCtx = [g \in Gens |-> "none"]
  /\ stream = [g \in Gens |-> "none"]
  /\ transport = [g \in Gens |-> "none"]
  /\ closeQueued = [g \in Gens |-> FALSE]
  /\ devTime = [g \in Gens |-> 0]
  /\ capturing = [g \in Gens |-> FALSE]
  /\ sentFrames = [g \in Gens |-> 0]
  /\ captured = [g \in Gens |-> 0]
  /\ thenQueue = [g \in Gens |-> <<>>]
  /\ sentLog = [g \in Gens |-> <<>>]
  /\ rafLoops = {}
  /\ pending = {}
  /\ msgCount = 0
  /\ nodes = <<>>
  /\ broken = TRUE
  /\ awaitFirst = FALSE
  /\ skipped = 0
  /\ inCloseCalls = [g \in Gens |-> 0]
  /\ outCloseCalls = [g \in Gens |-> 0]
  /\ disconnectCalls = [g \in Gens |-> 0]
  /\ sessionCloseCalls = [g \in Gens |-> 0]
  /\ stopped = [g \in Gens |-> FALSE]
  /\ stoppedConnecting = [g \in Gens |-> FALSE]
  /\ errored = [g \in Gens |-> FALSE]
  /\ openFailed = [g \in Gens |-> FALSE]
  /\ lastWasStop = FALSE
  /\ currentSession = NoSession
  /\ history = <<>>
  /\ isLoading = FALSE
  /\ config = [useSearch |-> FALSE, useReasoning |-> FALSE]
  /\ histStore = <<>>
  /\ usersDb = <<>>
  /\ activeUser = NoUser
  /\ authResult = "none"
  /\ nextId = 1
  /\ inflight = NoRequest
  /\ nPrompts = 0

\* ------------------------------------------------------------ helpers

\* The session promise of generation g has resolved: the transport opened.
Resolved(g) ==
  /\ transport[g] \in {"open", "closing", "closed", "errored"}
  /\ ~openFailed[g]

\* stopVisualizer: cancelAnimationFrame of the frame the ref holds.
LoopsAfterStopVisualizer ==
  IF animationFrameRef # 0 THEN rafLoops \ {animationFrameRef} ELSE rafLoops

\* updateVolume: Math.min(100, Math.max(0, average * 2.5))
VolumeOf(average) == Min(100, Max(0, (average * 5) \div 2))

\* session.close() on the transport of generation g
TransportAfterClose(g) ==
  IF transport[g] = "open" THEN "closing" ELSE transport[g]

\* ------------------------------------------------------- startSession

\* startSession without an API key: only the error message is set.
StartNoKey ==
  /\ mounted /\ ~isActive
  /\ ~apiKey
  /\ errorMsg' = "API Key missing"
  /\ lastWasStop' = FALSE
  /\ UNCHANGED appVars
  /\ UNCHANGED <<status, isActive, volume, isModelSpeaking, refVars, envVars,
                 genVars, broken, awaitFirst, skipped, callVars, stopped,
                 stoppedConnecting, errored, openFailed>>

\* startSession up to its first await: the main button calls it when
\* isActive is false.  Both audio contexts are created here.
StartSession ==
  /\ mounted /\ ~isActive
  /\ apiKey
  /\ nSessions < MaxSessions
  /\ LET g == nSessions + 1 IN
       /\ nSessions' = g
       /\ status' = "connecting"
       /\ errorMsg' = ""
       /\ isModelSpeaking' = FALSE
       /\ inputCtx' = [inputCtx EXCEPT ![g] = "open"]
       /\ outputCtx' = [outputCtx EXCEPT ![g] = "open"]
       /\ capturedActive' = [capturedActive EXCEPT ![g] = isActive]
       /\ pc' = [pc EXCEPT ![g] = "resume"]
  /\ lastWasStop' = FALSE
  /\ UNCHANGED appVars
  /\ UNCHANGED <<isActive, volume, refVars, envVars, stream, transport,
                 closeQueued, devTime, capturing, sentFrames, captured, thenQueue, sentLog, rafLoops,
                 pending, msgCount, nodes, broken, awaitFirst, skipped,
                 callVars, stopped, stoppedConnecting, errored, openFailed>>

\* startSession after the contexts were resumed: the refs are set and the
\* cursor is reset; getUserMedia is awaited next.
ContextsResumed(g) ==
  /\ pc[g] = "resume"
  /\ inputAudioContextRef' = g
  /\ audioContextRef' = g
  /\ nextStartTimeRef' = 0
  /\ pc' = [pc EXCEPT ![g] = "getMedia"]
  /\ broken' = TRUE
  /\ lastWasStop' = FALSE
  /\ UNCHANGED appVars
  /\ UNCHANGED <<reactVars, sessionRef, sourcesRef, inputSourceRef,
                 processorRef, analyserRef, animationFrameRef,
                 modelSpeakingTimeoutRef, envVars, nSessions, capturedActive,
                 inputCtx, outputCtx, stream, transport, closeQueued, devTime,
                 capturing, sentFrames, captured, thenQueue, sentLog, rafLoops, pending, msgCount, nodes, awaitFirst, skipped, callVars, stopped,
                 stoppedConnecting,
                 errored, openFailed>>

\* getUserMedia resolved: ai.live.connect is called (not awaited) and its
\* promise is stored in sessionRef.
MediaGranted(g) ==
  /\ pc[g] = "getMedia"
  /\ stream' = [stream EXCEPT ![g] = "live"]
  /\ transport' = [transport EXCEPT ![g] = "connecting"]
  /\ sessionRef' = g
  /\ pc' = [pc EXCEPT ![g] = "done"]
  /\ lastWasStop' = FALSE
  /\ UNCHANGED appVars
  /\ UNCHANGED <<reactVars, audioContextRef, inputAudioContextRef,
                 nextStartTimeRef, sourcesRef, inputSourceRef, processorRef,
                 analyserRef, animationFrameRef, modelSpeakingTimeoutRef,
                 envVars, nSessions, capturedActive, inputCtx, outputCtx,
                 closeQueued, devTime, capturing, sentFrames, captured, thenQueue, sentLog, rafLoops,
                 pending, msgCount, nodes, broken, awaitFirst, skipped,
                 callVars, stopped, stoppedConnecting, errored, openFailed>>

\* getUserMedia rejected (permission denied): the catch block.
MediaDenied(g) ==
  /\ pc[g] = "getMedia"
  /\ pc' = [pc EXCEPT ![g] = "failed"]
  /\ status' = "error"
  /\ errorMsg' = "Permission denied"
  /\ rafLoops' = LoopsAfterStopVisualizer
  /\ animationFrameRef' = 0
  /\ volume' = 0
  /\ isModelSpeaking' = FALSE
  /\ lastWasStop' = FALSE
  /\ UNCHANGED appVars
  /\ UNCHANGED <<isActive, audioContextRef, inputAudioContextRef,
                 nextStartTimeRef, sessionRef, sourcesRef, inputSourceRef,
                 processorRef, analyserRef, modelSpeakingTimeoutRef, envVars,
                 nSessions, capturedActive, inputCtx, outputCtx, stream,
                 transport, closeQueued, devTime, capturing, sentFrames, captured, thenQueue, sentLog,
                 pending, msgCount, nodes, broken, awaitFirst, skipped,
                 callVars, stopped, stoppedConnecting, errored, openFailed>>

\* -------------------------------------------------------- stopSession

\* The generations stopSession finds started.
Started == {g \in Gens : pc[g] # "idle"}

\* The body of stopSession.  It is called by the main button when isActive is
\* true and by the cleanup of the component when it unmounts.
StopBody ==
  /\ rafLoops' = LoopsAfterStopVisualizer
  /\ animationFrameRef' = 0
  /\ volume' = 0
  /\ LET disc == processorRef # 0 /\ inputSourceRef # 0 IN
       /\ capturing' = IF disc THEN [capturing EXCEPT ![processorRef] = FALSE]
                       ELSE capturing
       /\ disconnectCalls' =
            IF disc THEN [disconnectCalls EXCEPT ![processorRef] = Min(2, @ + 1)]
            ELSE disconnectCalls
  /\ inputCtx' = IF inputAudioContextRef # 0
                 THEN [inputCtx EXCEPT ![inputAudioContextRef] = "closed"]
                 ELSE inputCtx
  /\ inCloseCalls' = IF inputAudioContextRef # 0
                     THEN [inCloseCalls EXCEPT ![inputAudioContextRef] = Min(2, @ + 1)]
                     ELSE inCloseCalls
  /\ outputCtx' = IF audioContextRef # 0
                  THEN [outputCtx EXCEPT ![audioContextRef] = "closed"]
                  ELSE outputCtx
  /\ outCloseCalls' = IF audioContextRef # 0
                      THEN [outCloseCalls EXCEPT ![audioContextRef] = Min(2, @ + 1)]
                      ELSE outCloseCalls
  \* sessionRef.current.then(s => s.close()): at once when the promise has
  \* resolved, queued on the promise otherwise
  /\ IF sessionRef # 0 /\ Resolved(sessionRef)
     THEN /\ transport' = [transport EXCEPT ![sessionRef] = TransportAfterClose(sessionRef)]
          /\ sessionCloseCalls' = [sessionCloseCalls EXCEPT ![sessionRef] = Min(2, @ + 1)]
          /\ UNCHANGED closeQueued
     ELSE /\ closeQueued' = IF sessionRef # 0
                            THEN [closeQueued EXCEPT ![sessionRef] = TRUE]
                            ELSE closeQueued
          /\ UNCHANGED <<transport, sessionCloseCalls>>
  /\ isActive' = FALSE
  /\ status' = "disconnected"
  /\ sessionRef' = 0
  /\ sourcesRef' = {}
  /\ isModelSpeaking' = FALSE
  /\ broken' = TRUE
  /\ stopped' = [g \in Gens |-> stopped[g] \/ g \in Started]
  /\ stoppedConnecting' =
       [g \in Gens |-> stoppedConnecting[g]
                        \/ (g = nSessions /\ status = "connecting")]
  /\ lastWasStop' = TRUE
  /\ UNCHANGED appVars
  /\ UNCHANGED <<errorMsg, audioContextRef, inputAudioContextRef,
                 nextStartTimeRef, inputSourceRef, processorRef, analyserRef,
                 modelSpeakingTimeoutRef, apiKey, nSessions, pc,
                 capturedActive, stream, devTime, sentFrames, captured, thenQueue, sentLog, pending,
                 msgCount, nodes, awaitFirst, skipped, errored, openFailed>>

\* The main button while isActive is true.
StopSession ==
  /\ mounted /\ isActive
  /\ StopBody
  /\ UNCHANGED mounted

\* The component unmounts: the cleanup effect calls stopSession.
Unmount ==
  /\ mounted
  /\ mounted' = FALSE
  /\ StopBody

\* ------------------------------------------------- transport callbacks

\* onopen of generation g, followed by the resolution of its session
\* promise, which runs a close that stopSession queued on it.
\* e is the average the analyser reports to the first updateVolume.
OnOpen(g, e) ==
  /\ transport[g] = "connecting"
  /\ status' = "connected"
  /\ isActive' = TRUE
  /\ inputSourceRef' = g
  /\ analyserRef' = g
  \* startVisualizer: updateVolume runs once and requests the next frame
  /\ volume' = VolumeOf(e)
  /\ animationFrameRef' = g
  /\ rafLoops' = rafLoops \cup {g}
  /\ processorRef' = g
  /\ capturing' = [capturing EXCEPT ![g] = TRUE]
  /\ transport' = [transport EXCEPT ![g] = IF closeQueued[g] THEN "closing" ELSE "open"]
  /\ sessionCloseCalls' = IF closeQueued[g]
                          THEN [sessionCloseCalls EXCEPT ![g] = Min(2, @ + 1)]
                          ELSE sessionCloseCalls
  /\ closeQueued' = [closeQueued EXCEPT ![g] = FALSE]
  /\ lastWasStop' = FALSE
  /\ UNCHANGED appVars
  /\ UNCHANGED <<errorMsg, isModelSpeaking, audioContextRef,
                 inputAudioContextRef, nextStartTimeRef, sessionRef,
                 sourcesRef, modelSpeakingTimeoutRef, envVars, nSessions, pc,
                 capturedActive, inputCtx, outputCtx, stream, devTime,
                 sentFrames, captured, thenQueue, sentLog, pending, msgCount, nodes, broken,
                 awaitFirst, skipped, inCloseCalls, outCloseCalls, disconnectCalls,
                 stopped, stoppedConnecting, errored, openFailed>>

\* onopen of generation g when stopSession has already closed its input
\* context and createMediaStreamSource throws on the closed context: the
\* two state setters before it have run, nothing after it has.  The session
\* promise resolves as in OnOpen.
OnOpenThrows(g) ==
  /\ transport[g] = "connecting"
  /\ inputCtx[g] = "closed"
  /\ status' = "connected"
  /\ isActive' = TRUE
  /\ transport' = [transport EXCEPT ![g] = IF closeQueued[g] THEN "closing" ELSE "open"]
  /\ sessionCloseCalls' = IF closeQueued[g]
                          THEN [sessionCloseCalls EXCEPT ![g] = Min(2, @ + 1)]
                          ELSE sessionCloseCalls
  /\ closeQueued' = [closeQueued EXCEPT ![g] = FALSE]
  /\ lastWasStop' = FALSE
  /\ UNCHANGED appVars
  /\ UNCHANGED <<errorMsg, volume, isModelSpeaking, refVars, envVars,
                 nSessions, pc, capturedActive, inputCtx, outputCtx, stream,
                 devTime, capturing, sentFrames, captured, thenQueue, sentLog, rafLoops, pending, msgCount,
                 nodes, broken, awaitFirst, skipped, inCloseCalls, outCloseCalls,
                 disconnectCalls, stopped, stoppedConnecting, errored,
                 openFailed>>

\* onclose of generation g: the transport was closed by the remote end, by
\* session.close() or after an error.
OnClose(g) ==
  /\ transport[g] \in {"open", "closing", "errored"}
  /\ transport' = [transport EXCEPT ![g] = "closed"]
  /\ status' = IF capturedActive[g] THEN "disconnected" ELSE status
  /\ isActive' = IF capturedActive[g] THEN FALSE ELSE isActive
  /\ rafLoops' = LoopsAfterStopVisualizer
  /\ animationFrameRef' = 0
  /\ volume' = 0
  /\ isModelSpeaking' = FALSE
  /\ lastWasStop' = FALSE
  /\ UNCHANGED appVars
  /\ UNCHANGED <<errorMsg, audioContextRef, inputAudioContextRef,
                 nextStartTimeRef, sessionRef, sourcesRef, inputSourceRef,
                 processorRef, analyserRef, modelSpeakingTimeoutRef, envVars,
                 nSessions, pc, capturedActive, inputCtx, outputCtx, stream,
                 closeQueued, devTime, capturing, sentFrames, captured, thenQueue, sentLog, pending,
                 msgCount, nodes, broken, awaitFirst, skipped, callVars,
                 stopped, stoppedConnecting, errored, openFailed>>

\* onerror of generation g, while its transport is connecting or open.
OnError(g) ==
  /\ transport[g] \in {"connecting", "open"}
  /\ transport' = [transport EXCEPT ![g] = "errored"]
  /\ openFailed' = [openFailed EXCEPT ![g] = (transport[g] = "connecting")]
  /\ errored' = [errored EXCEPT ![g] = TRUE]
  /\ status' = "error"
  /\ errorMsg' = "Connection interrupted. Reconnecting..."
  /\ isActive' = FALSE
  /\ rafLoops' = LoopsAfterStopVisualizer
  /\ animationFrameRef' = 0
  /\ volume' = 0
  /\ isModelSpeaking' = FALSE
  /\ lastWasStop' = FALSE
  /\ UNCHANGED appVars
  /\ UNCHANGED <<audioContextRef, inputAudioContextRef, nextStartTimeRef,
                 sessionRef, sourcesRef, inputSourceRef, processorRef,
                 analyserRef, modelSpeakingTimeoutRef, envVars, nSessions, pc,
                 capturedActive, inputCtx, outputCtx, stream, closeQueued,
                 devTime, capturing, sentFrames, captured, thenQueue, sentLog, pending, msgCount, nodes, broken, awaitFirst, skipped, callVars, stopped,
                 stoppedConnecting>>

\* The promise of ai.live.connect rejects and no callback is delivered:
\* startSession does not await the promise, so nothing observes it.
ConnectRejected(g) ==
  /\ transport[g] = "connecting"
  /\ transport' = [transport EXCEPT ![g] = "failed"]
  /\ openFailed' = [openFailed EXCEPT ![g] = TRUE]
  /\ lastWasStop' = FALSE
  /\ UNCHANGED appVars
  /\ UNCHANGED <<reactVars, refVars, envVars, nSessions, pc, capturedActive,
                 inputCtx, outputCtx, stream, closeQueued, devTime, capturing,
                 sentFrames, captured, thenQueue, sentLog, rafLoops, pending, msgCount, nodes, broken, awaitFirst, skipped, callVars, stopped, stoppedConnecting,
                 errored>>

\* The frames handed to the transport once the session promise resolves,
\* with the frames captured before that dropped.
AfterResolveDropped(log, queue) == log

\* The frames handed to the transport once the session promise resolves:
\* the callbacks registered by sessionPromise.then run in the order in
\* which they were registered.
AfterResolve(log, queue) ==
  log \o [i \in 1..Len(queue) |-> [n |-> queue[i], early |-> TRUE]]

\* processor.onaudioprocess of generation g: the frame is handed to
\* session.sendRealtimeInput through the session promise, at once when the
\* promise has resolved and when it resolves otherwise.
Capture(g) ==
  /\ capturing[g]
  /\ inputCtx[g] = "open"
  /\ captured[g] < MaxCapture
  /\ captured' = [captured EXCEPT ![g] = @ + 1]
  /\ IF Resolved(g)
     THEN /\ sentFrames' = [sentFrames EXCEPT ![g] = @ + 1]
          /\ sentLog' = [sentLog EXCEPT
               ![g] = Append(@, [n |-> captured[g] + 1, early |-> FALSE])]
          /\ UNCHANGED thenQueue
     ELSE /\ thenQueue' = [thenQueue EXCEPT ![g] = Append(@, captured[g] + 1)]
          /\ UNCHANGED <<sentFrames, sentLog>>
  /\ lastWasStop' = FALSE
  /\ UNCHANGED appVars
  /\ UNCHANGED <<reactVars, refVars, envVars, nSessions, pc, capturedActive,
                 inputCtx, outputCtx, stream, transport, closeQueued, devTime,
                 capturing, rafLoops, pending, msgCount, nodes, broken,
                 awaitFirst, skipped, callVars, stopped, stoppedConnecting, errored,
                 openFailed>>

\* onopen of generation g delivered before the promise of ai.live.connect
\* has resolved: as OnOpen, but the session is not yet available to the
\* callbacks waiting on the promise.
OnOpenEarly(g, e) ==
  /\ transport[g] = "connecting"
  /\ status' = "connected"
  /\ isActive' = TRUE
  /\ inputSourceRef' = g
  /\ analyserRef' = g
  /\ volume' = VolumeOf(e)
  /\ animationFrameRef' = g
  /\ rafLoops' = rafLoops \cup {g}
  /\ processorRef' = g
  /\ capturing' = [capturing EXCEPT ![g] = TRUE]
  /\ transport' = [transport EXCEPT ![g] = "opened"]
  /\ lastWasStop' = FALSE
  /\ UNCHANGED appVars
  /\ UNCHANGED <<errorMsg, isModelSpeaking, audioContextRef,
                 inputAudioContextRef, nextStartTimeRef, sessionRef,
                 sourcesRef, modelSpeakingTimeoutRef, envVars, nSessions, pc,
                 capturedActive, inputCtx, outputCtx, stream, closeQueued,
                 devTime, sentFrames, captured, thenQueue, sentLog, pending,
                 msgCount, nodes, broken, awaitFirst, skipped, callVars, stopped,
                 stoppedConnecting, errored, openFailed>>

\* The promise of ai.live.connect resolves after OnOpenEarly: the callbacks
\* registered on it run in order, the frames first captured, then a close
\* that stopSession queued.
SessionResolved(g) ==
  /\ transport[g] = "opened"
  /\ sentLog' = [sentLog EXCEPT ![g] = AfterResolve(@, thenQueue[g])]
  /\ sentFrames' = [sentFrames EXCEPT ![g] = Len(sentLog'[g])]
  /\ thenQueue' = [thenQueue EXCEPT ![g] = <<>>]
  /\ transport' = [transport EXCEPT ![g] = IF closeQueued[g] THEN "closing" ELSE "open"]
  /\ sessionCloseCalls' = IF closeQueued[g]
                          THEN [sessionCloseCalls EXCEPT ![g] = Min(2, @ + 1)]
                          ELSE sessionCloseCalls
  /\ closeQueued' = [closeQueued EXCEPT ![g] = FALSE]
  /\ lastWasStop' = FALSE
  /\ UNCHANGED appVars
  /\ UNCHANGED <<reactVars, refVars, envVars, nSessions, pc, capturedActive,
                 inputCtx, outputCtx, stream, devTime, capturing, captured,
                 rafLoops, pending, msgCount, nodes, broken, awaitFirst, skipped,
                 inCloseCalls, outCloseCalls, disconnectCalls, stopped,
                 stoppedConnecting, errored, openFailed>>

\* ------------------------------------------------------------ onmessage

\* StartTimeFor without the repair of an underrun: the cursor as it is.
StartTimeForStale(cursor, now) == cursor

\* StartTimeFor with every chunk started at the device time of its step.
StartTimeForNow(cursor, now) == now

\* StartTimeFor with the underrun test written <= instead of <.
StartTimeForEager(cursor, now) ==
  IF cursor <= now THEN now + SAFETY_MARGIN ELSE cursor

\* The start time of the next chunk: the cursor, or now + 0.15 when the
\* cursor is in the past.
StartTimeFor(cursor, now) ==
  IF cursor < now THEN now + SAFETY_MARGIN ELSE cursor

\* The buffer sources after every source of the set was stopped.
StopSources(log, set) ==
  [i \in DOMAIN log |->
     IF i \in set /\ log[i].st = "scheduled"
     THEN [log[i] EXCEPT !.st = "stopped"] ELSE log[i]]

\* SpeakingAfter with setIsModelSpeaking(true) placed before the decode.
SpeakingAfterAny(ok, flag) == TRUE

\* SpeakingAfter without the call of setIsModelSpeaking(true).
SpeakingAfterNever(ok, flag) == flag

\* isModelSpeaking after the try block of onmessage: setIsModelSpeaking(true)
\* is reached only when the chunk was decoded and scheduled.
SpeakingAfter(ok, flag) == IF ok THEN TRUE ELSE flag

\* NowFor with the device time read before the awaits of the handler.
NowAtArrival(p) == p.arr

\* The device time the scheduling step of handler p works with:
\* outputCtx.currentTime, read after the awaits, in the step that schedules.
NowFor(p) == devTime[p.g]

\* CursorAfterControl with turnComplete resetting the cursor as well.
CursorAfterControlReset(intr, tc, cursor) == IF intr \/ tc THEN 0 ELSE cursor

\* The cursor after a message without audio: interrupted resets it,
\* turnComplete leaves it alone.
CursorAfterControl(intr, tc, cursor) == IF intr THEN 0 ELSE cursor

\* The suspended handlers after the interrupted event of message n is
\* handled: nothing cancels them; those of earlier messages are marked late.
Overtaken(handlers, n) ==
  {IF p.id < n THEN [p EXCEPT !.late = TRUE] ELSE p : p \in handlers}

\* A message with inline audio: the handler suspends at its awaits
\* (outputCtx.resume, decodeAudioData) before it changes anything.
\* decodes: whether decodeAudioData succeeds; d: the duration of the buffer
\* (0 when it does not decode); intr: the message also carries
\* serverContent.interrupted.
OnMessageAudio(g, decodes, d, intr) ==
  /\ transport[g] = "open"
  /\ msgCount < MaxMsgs
  /\ Cardinality(pending) < MaxPending
  /\ msgCount' = msgCount + 1
  /\ pending' = pending \cup
       {[id |-> msgCount + 1, g |-> g, arr |-> devTime[g], ok |-> decodes,
         dur |-> IF decodes THEN d ELSE 0, intr |-> intr,
         unset |-> (nextStartTimeRef = 0), first |-> awaitFirst,
         late |-> FALSE]}
  /\ awaitFirst' = IF decodes THEN FALSE ELSE awaitFirst
  /\ lastWasStop' = FALSE
  /\ UNCHANGED appVars
  /\ UNCHANGED <<reactVars, refVars, envVars, nSessions, pc, capturedActive,
                 inputCtx, outputCtx, stream, transport, closeQueued, devTime,
                 capturing, sentFrames, captured, thenQueue, sentLog,
                 rafLoops, nodes, broken, skipped, callVars, stopped,
                 stoppedConnecting, errored, openFailed>>

\* A message without audio: interrupted and turnComplete are handled at once.
OnMessageControl(g, intr, tc) ==
  /\ transport[g] = "open"
  /\ msgCount < MaxMsgs
  /\ intr \/ tc
  /\ msgCount' = msgCount + 1
  /\ IF intr
     THEN /\ nodes' = StopSources(nodes, sourcesRef)
          /\ sourcesRef' = {}
          /\ isModelSpeaking' = FALSE
          /\ broken' = TRUE
          /\ awaitFirst' = TRUE
     ELSE UNCHANGED <<nodes, sourcesRef, isModelSpeaking, broken, awaitFirst>>
  /\ nextStartTimeRef' = CursorAfterControl(intr, tc, nextStartTimeRef)
  /\ pending' = IF intr THEN Overtaken(pending, msgCount + 1) ELSE pending
  /\ lastWasStop' = FALSE
  /\ UNCHANGED appVars
  /\ UNCHANGED <<status, isActive, errorMsg, volume, audioContextRef,
                 inputAudioContextRef, sessionRef, inputSourceRef,
                 processorRef, analyserRef, animationFrameRef,
                 modelSpeakingTimeoutRef, envVars, nSessions, pc,
                 capturedActive, inputCtx, outputCtx, stream, transport,
                 closeQueued, devTime, capturing, sentFrames, captured, thenQueue, sentLog, rafLoops,
                 skipped, callVars, stopped, stoppedConnecting,
                 errored, openFailed>>

\* The handler of an audio message resumes after its awaits: the chunk is
\* scheduled (or the decode error is caught), then the interruption carried
\* by the same message is handled.
ResumeHandler(p) ==
  /\ p \in pending
  /\ pending' = IF p.intr THEN Overtaken(pending \ {p}, p.id)
                ELSE pending \ {p}
  /\ LET now == NowFor(p)
         start == StartTimeFor(nextStartTimeRef, now)
         id == Len(nodes) + 1
         node == [id |-> p.id, g |-> p.g, now |-> now, start |-> start,
                  end |-> start + p.dur, cont |-> (~broken /\ nodes # <<>>),
                  st |-> "scheduled"]
         log1 == IF p.ok THEN Append(nodes, node) ELSE nodes
         set1 == IF p.ok THEN sourcesRef \cup {id} ELSE sourcesRef
     IN
       /\ nodes' = IF p.intr THEN StopSources(log1, set1) ELSE log1
       /\ sourcesRef' = IF p.intr THEN {} ELSE set1
       /\ nextStartTimeRef' = IF p.intr THEN 0
                              ELSE IF p.ok THEN start + p.dur
                              ELSE nextStartTimeRef
       /\ isModelSpeaking' = IF p.intr THEN FALSE
                             ELSE SpeakingAfter(p.ok, isModelSpeaking)
       /\ modelSpeakingTimeoutRef' =
            IF p.ok THEN [g |-> p.g, due |-> now + p.dur + SPEAKING_EXTRA]
            ELSE modelSpeakingTimeoutRef
       /\ broken' = IF p.intr THEN TRUE ELSE IF p.ok THEN FALSE ELSE broken
       /\ awaitFirst' = IF p.intr THEN TRUE ELSE awaitFirst
       /\ skipped' = IF p.ok THEN skipped ELSE skipped + 1
  /\ lastWasStop' = FALSE
  /\ UNCHANGED appVars
  /\ UNCHANGED <<status, isActive, errorMsg, volume, audioContextRef,
                 inputAudioContextRef, sessionRef, inputSourceRef,
                 processorRef, analyserRef, animationFrameRef, envVars,
                 nSessions, pc, capturedActive, inputCtx, outputCtx, stream,
                 transport, closeQueued, devTime, capturing, sentFrames, captured, thenQueue, sentLog,
                 rafLoops, msgCount, callVars, stopped, stoppedConnecting,
                 errored, openFailed>>

\* source.onended: a scheduled buffer has played to its end.
SourceEnded(i) ==
  /\ i \in DOMAIN nodes
  /\ nodes[i].st = "scheduled"
  /\ outputCtx[nodes[i].g] = "open"
  /\ devTime[nodes[i].g] >= nodes[i].end
  /\ nodes' = [nodes EXCEPT ![i].st = "ended"]
  /\ sourcesRef' = sourcesRef \ {i}
  /\ lastWasStop' = FALSE
  /\ UNCHANGED appVars
  /\ UNCHANGED <<reactVars, audioContextRef, inputAudioContextRef,
                 nextStartTimeRef, sessionRef, inputSourceRef, processorRef,
                 analyserRef, animationFrameRef, modelSpeakingTimeoutRef,
                 envVars, nSessions, pc, capturedActive, inputCtx, outputCtx,
                 stream, transport, closeQueued, devTime, capturing,
                 sentFrames, captured, thenQueue, sentLog, rafLoops, pending, msgCount, broken,
                 awaitFirst, skipped, callVars, stopped, stoppedConnecting, errored,
                 openFailed>>

\* The timeout armed by the last scheduled chunk fires.  The clock of a
\* closed context no longer advances, so the timeout of a closed context
\* may fire at any moment.
SpeakingTimeout ==
  /\ modelSpeakingTimeoutRef # NoTimer
  /\ LET g == modelSpeakingTimeoutRef.g IN
       /\ outputCtx[g] # "open" \/ devTime[g] >= modelSpeakingTimeoutRef.due
       /\ isModelSpeaking' =
            IF devTime[g] >= nextStartTimeRef - SPEAKING_EPSILON
            THEN FALSE ELSE isModelSpeaking
  /\ modelSpeakingTimeoutRef' = NoTimer
  /\ lastWasStop' = FALSE
  /\ UNCHANGED appVars
  /\ UNCHANGED <<status, isActive, errorMsg, volume, audioContextRef,
                 inputAudioContextRef, nextStartTimeRef, sessionRef,
                 sourcesRef, inputSourceRef, processorRef, analyserRef,
                 animationFrameRef, envVars, genVars, broken,
                 awaitFirst, skipped, callVars, stopped, stoppedConnecting, errored,
                 openFailed>>

\* One animation frame of the visualizer loop started by generation g:
\* updateVolume publishes the volume and requests the next frame.
VisualizerTick(g, e) ==
  /\ g \in rafLoops
  /\ analyserRef # 0
  /\ volume' = VolumeOf(e)
  /\ animationFrameRef' = g
  /\ lastWasStop' = FALSE
  /\ UNCHANGED appVars
  /\ UNCHANGED <<status, isActive, errorMsg, isModelSpeaking,
                 audioContextRef, inputAudioContextRef, nextStartTimeRef,
                 sessionRef, sourcesRef, inputSourceRef, processorRef,
                 analyserRef, modelSpeakingTimeoutRef, envVars, genVars, broken, awaitFirst, skipped, callVars, stopped,
                 stoppedConnecting, errored, openFailed>>

\* The clock of the output context of generation g advances by one unit.
Tick(g) ==
  /\ outputCtx[g] = "open"
  /\ devTime[g] < MaxTime
  /\ devTime' = [devTime EXCEPT ![g] = @ + 1]
  /\ lastWasStop' = FALSE
  /\ UNCHANGED appVars
  /\ UNCHANGED <<reactVars, refVars, envVars, nSessions, pc, capturedActive,
                 inputCtx, outputCtx, stream, transport, closeQueued,
                 capturing, sentFrames, captured, thenQueue, sentLog, rafLoops, pending, msgCount, nodes, broken, awaitFirst, skipped, callVars, stopped,
                 stoppedConnecting, errored, openFailed>>

\* The clock of the output context of generation g advances to the next
\* instant at which something is due: the expiry of the speaking timer or
\* the end of the buffered audio.
TimeElapses(g) ==
  /\ outputCtx[g] = "open"
  /\ \E t \in {modelSpeakingTimeoutRef.due, nextStartTimeRef} :
       /\ t > devTime[g]
       /\ devTime' = [devTime EXCEPT ![g] = t]
  /\ lastWasStop' = FALSE
  /\ UNCHANGED appVars
  /\ UNCHANGED <<reactVars, refVars, envVars, nSessions, pc, capturedActive,
                 inputCtx, outputCtx, stream, transport, closeQueued,
                 capturing, sentFrames, captured, thenQueue, sentLog,
                 rafLoops, pending, msgCount, nodes, histVars_noStop>>

\* The life cycle of the sessions: every way a session starts, fails, is
\* stopped and is torn down, with the callbacks that are still delivered
\* afterwards.  The device clocks do not advance here.
Next ==
  \/ StartNoKey
  \/ StartSession
  \/ \E g \in Gens : ContextsResumed(g)
  \/ \E g \in Gens : MediaGranted(g)
  \/ \E g \in Gens : MediaDenied(g)
  \/ StopSession
  \/ Unmount
  \/ \E g \in Gens : OnOpen(g, 20)
  \/ \E g \in Gens : OnOpenThrows(g)
  \/ \E g \in Gens : OnClose(g)
  \/ \E g \in Gens : OnError(g)
  \/ \E g \in Gens : ConnectRejected(g)
  \/ \E g \in Gens : Capture(g)
  \/ \E g \in Gens : OnMessageAudio(g, TRUE, 2, FALSE)
  \/ \E g \in Gens : OnMessageControl(g, TRUE, FALSE)
  \/ \E p \in pending : ResumeHandler(p)
  \/ SpeakingTimeout
  \/ \E g \in Gens : VisualizerTick(g, 20)

Spec == Init /\ [][Next]_vars

\* The playback of one connected session: messages of every kind arrive
\* while the clock of the output context advances.  The session is neither
\* stopped nor closed here; Next covers that.
NextPlay ==
  \/ (nSessions = 0 /\ StartSession)
  \/ \E g \in Gens : ContextsResumed(g)
  \/ \E g \in Gens : MediaGranted(g)
  \/ \E g \in Gens : OnOpen(g, 20)
  \/ \E g \in Gens, decodes \in BOOLEAN, d \in Durations, intr \in BOOLEAN :
       OnMessageAudio(g, decodes, d, intr)
  \/ \E g \in Gens, intr \in BOOLEAN, tc \in BOOLEAN :
       OnMessageControl(g, intr, tc)
  \/ \E p \in pending : ResumeHandler(p)
  \/ \E i \in 1..MaxMsgs : SourceEnded(i)
  \/ \E g \in Gens : Tick(g)

SpecPlay == Init /\ [][NextPlay]_vars

\* The suspended handler of the oldest message.
Oldest == CHOOSE p \in pending : \A q \in pending : p.id <= q.id

\* The awaits of the handlers complete in the order they were made: the
\* handler of the oldest message resumes first.
ResumeOldest == pending # {} /\ ResumeHandler(Oldest)

\* One session as in NextPlay, with the suspended handlers resuming in the
\* order of their messages.
NextOrder ==
  \/ (nSessions = 0 /\ StartSession)
  \/ \E g \in Gens : ContextsResumed(g)
  \/ \E g \in Gens : MediaGranted(g)
  \/ \E g \in Gens : OnOpen(g, 20)
  \/ \E g \in Gens, decodes \in BOOLEAN, d \in Durations, intr \in BOOLEAN :
       OnMessageAudio(g, decodes, d, intr)
  \/ \E g \in Gens, intr \in BOOLEAN, tc \in BOOLEAN :
       OnMessageControl(g, intr, tc)
  \/ ResumeOldest
  \/ \E i \in 1..MaxMsgs : SourceEnded(i)
  \/ \E g \in Gens : Tick(g)

SpecOrder == Init /\ [][NextOrder]_vars

\* The capture path of one session: the capture callback fires before and
\* after the session promise resolves, and the session is stopped, closed
\* or fails at any point.
NextCapture ==
  \/ (nSessions = 0 /\ StartSession)
  \/ \E g \in Gens : ContextsResumed(g)
  \/ \E g \in Gens : MediaGranted(g)
  \/ \E g \in Gens : OnOpen(g, 20)
  \/ \E g \in Gens : OnOpenEarly(g, 20)
  \/ \E g \in Gens : SessionResolved(g)
  \/ \E g \in Gens : Capture(g)
  \/ StopSession
  \/ Unmount
  \/ \E g \in Gens : OnClose(g)
  \/ \E g \in Gens : OnError(g)

SpecCapture == Init /\ [][NextCapture]_vars

\* A burst of audio for one connected session, followed for as long as it
\* takes the speaking timer to expire and the buffered audio to play out.
\* Chunks of 100 ms and of 500 ms arrive.
BurstDurations == {2, 10}

NextSpeak ==
  \/ (nSessions = 0 /\ StartSession)
  \/ \E g \in Gens : ContextsResumed(g)
  \/ \E g \in Gens : MediaGranted(g)
  \/ \E g \in Gens : OnOpen(g, 20)
  \/ \E g \in Gens, d \in BurstDurations : OnMessageAudio(g, TRUE, d, FALSE)
  \/ \E p \in pending : ResumeHandler(p)
  \/ \E g \in Gens : Tick(g)
  \/ \E g \in Gens : TimeElapses(g)
  \/ SpeakingTimeout

\* A suspended handler resumes, time passes and an expired timer fires.
FairSpeak ==
  /\ WF_vars(\E p \in pending : ResumeHandler(p))
  /\ WF_vars(\E g \in Gens : TimeElapses(g))
  /\ WF_vars(SpeakingTimeout)

SpecSpeak == Init /\ [][NextSpeak]_vars /\ FairSpeak

\* ------------------------------------------------------------ playback

\* The nodes scheduled right after another one, with no interruption, stop
\* or start of a session in between.
Chained == {i \in 2..Len(nodes) : nodes[i].cont}

\* C1 as stated: consecutive frames delivered with no interrupted event and
\* no stop in between satisfy start[i+1] = start[i] + d[i], whatever their
\* arrival times are.
C1_StartsChainAlways ==
  \A i \in Chained : nodes[i].start = nodes[i - 1].end

\* C1 as amended: start[i+1] = start[i] + d[i] provided frame i+1 is
\* scheduled while the device time is not past start[i] + d[i]; a frame
\* scheduled later than that starts at the device time plus the safety margin.
C1_StartsChainUnlessUnderrun ==
  \A i \in Chained :
    nodes[i].start = IF nodes[i].now <= nodes[i - 1].end
                     THEN nodes[i - 1].end
                     ELSE nodes[i].now + SAFETY_MARGIN

\* Two frames scheduled at different device times, the second before the
\* first has played to its end, start back to back.
C1_Witness ==
  \E i \in Chained :
    /\ nodes[i - 1].now < nodes[i].now
    /\ nodes[i].now <= nodes[i - 1].end
    /\ nodes[i].start = nodes[i - 1].start + (nodes[i - 1].end - nodes[i - 1].start)

\* The start time given to the chunk that the step schedules.
NewStart == nodes'[Len(nodes')].start

\* C2: a frame that arrives while the cursor is unset is scheduled no earlier
\* than the device time at its arrival plus the safety margin, for every
\* device time, 0 included.
C2_UnsetCursorGetsMargin ==
  [][\A p \in pending :
       (p.ok /\ p.unset /\ ResumeHandler(p))
         => NewStart >= p.arr + SAFETY_MARGIN]_vars

\* A step that handles an interrupted event.
InterruptStep ==
  \/ \E g \in Gens, tc \in BOOLEAN : OnMessageControl(g, TRUE, tc)
  \/ \E p \in pending : p.intr /\ ResumeHandler(p)

\* C3: after an interrupted event is handled the handle set is empty and the
\* cursor is unset, and the next frame that arrives is scheduled at the
\* device time plus the safety margin.
C3_FlushRestartsTimeline ==
  [][/\ InterruptStep => (sourcesRef' = {} /\ nextStartTimeRef' = 0)
     /\ \A p \in pending :
          (p.ok /\ p.first /\ ResumeHandler(p))
            => NewStart = devTime[p.g] + SAFETY_MARGIN]_vars

\* ----------------------------------------------------------- lifecycle

\* Generation g holds no open device and no transport that is connecting or
\* open.
Released(g) ==
  /\ inputCtx[g] # "open"
  /\ outputCtx[g] # "open"
  /\ transport[g] \notin {"connecting", "open"}

\* C4: a stop() that directly follows a stop() leaves the status
\* Disconnected, no device and no transport open, and releases nothing that
\* was already released.
C4_StopIsIdempotent ==
  [][(lastWasStop /\ lastWasStop') =>
       /\ status' = "disconnected"
       /\ \A g \in Gens :
            /\ Released(g)'
            /\ inCloseCalls[g] > 0 => inCloseCalls'[g] = inCloseCalls[g]
            /\ outCloseCalls[g] > 0 => outCloseCalls'[g] = outCloseCalls[g]
            /\ sessionCloseCalls[g] > 0
                 => sessionCloseCalls'[g] = sessionCloseCalls[g]
            /\ disconnectCalls[g] > 0
                 => disconnectCalls'[g] = disconnectCalls[g]]_vars

\* C5: a transport error while Connecting or Connected leaves the status
\* Error with the capture stopped, both devices closed and the transport
\* closed, and no frame is sent on that transport afterwards.
C5_ErrorTearsDown ==
  [][\A g \in Gens :
       /\ (errored'[g] /\ ~errored[g])
            => (status' = "error" /\ ~capturing'[g] /\ Released(g)')
       /\ errored[g] => sentFrames'[g] = sentFrames[g]]_vars

\* C6: every device and transport acquired by a start() is released at most
\* once, and is released before the next start() acquires new ones.
C6_ReleasedOnceBeforeNextStart ==
  \A g \in Gens :
    /\ inCloseCalls[g] <= 1
    /\ outCloseCalls[g] <= 1
    /\ sessionCloseCalls[g] <= 1
    /\ \A h \in Gens : (g < h /\ pc[h] # "idle") => Released(g)

\* C7: when the microphone permission is denied the status becomes Error,
\* the message of the failure is shown, and no output device has been opened.
C7_DeniedOpensNoOutput ==
  [][\A g \in Gens :
       (pc[g] # "failed" /\ pc'[g] = "failed")
         => /\ status' = "error"
            /\ errorMsg' = "Permission denied"
            /\ outputCtx'[g] = "none"]_vars

\* C8: when the transport cannot be opened the status becomes Error and the
\* devices that were opened are released.
C8_OpenFailureReleases ==
  [][\A g \in Gens :
       (openFailed'[g] /\ ~openFailed[g])
         => /\ status' = "error"
            /\ inputCtx'[g] # "open"
            /\ outputCtx'[g] # "open"]_vars

\* No start is suspended at an await, no transport is connecting or closing,
\* no onmessage handler is suspended and no timer is armed.
Quiet ==
  /\ \A h \in Gens : pc[h] \notin {"resume", "getMedia"}
  /\ \A h \in Gens : transport[h] \notin {"connecting", "closing"}
  /\ pending = {}
  /\ modelSpeakingTimeoutRef = NoTimer

\* C9: after a stop() called while the status was Connecting, once every
\* pending callback has run the status is Disconnected and every device and
\* transport of that start is released.
C9_StopWhileConnecting ==
  \A g \in Gens :
    (stoppedConnecting[g] /\ Quiet) => (status = "disconnected" /\ Released(g))

\* A callback of generation g runs: the transport opened, a handler resumes
\* after decoding, a control message is handled, the capture callback fires
\* or the remote-speaking timer expires.
Callback(g) ==
  \/ \E e \in Energies : OnOpen(g, e)
  \/ OnOpenThrows(g)
  \/ \E p \in pending : p.g = g /\ ResumeHandler(p)
  \/ \E intr \in BOOLEAN, tc \in BOOLEAN : OnMessageControl(g, intr, tc)
  \/ Capture(g)
  \/ modelSpeakingTimeoutRef.g = g /\ SpeakingTimeout

\* C10: a callback of a session that stop() has ended changes neither the
\* status, the cursor, the handle set nor the remote-speaking flag, schedules
\* no audio, starts no capture or visualizer loop and sends no frame.
C10_LateCallbacksAreNoOps ==
  [][\A g \in Gens :
       (stopped[g] /\ Callback(g))
         => UNCHANGED <<status, nextStartTimeRef, sourcesRef, isModelSpeaking,
                        nodes, capturing, rafLoops, sentFrames>>]_vars

\* The generations that hold an open audio device.
HoldingDevices == {g \in Gens : inputCtx[g] = "open" \/ outputCtx[g] = "open"}

\* The generations whose transport is connecting or open.
HoldingTransport == {g \in Gens : transport[g] \in {"connecting", "open"}}

\* C11: at most one session is live at any time: there are never two sets of
\* open audio devices nor two open transports, and a ref that holds an open
\* device is not overwritten by a later start.
C11_OneLiveSession ==
  /\ Cardinality(HoldingDevices) <= 1
  /\ Cardinality(HoldingTransport) <= 1
  /\ \A g \in Gens :
       (pc[g] \notin {"idle", "resume"} /\ inputCtx[g] = "open")
         => inputAudioContextRef = g
  /\ \A g \in Gens :
       (pc[g] \notin {"idle", "resume"} /\ outputCtx[g] = "open")
         => audioContextRef = g

\* C12: a closed event for a Connected session that no local stop() tore
\* down sets the status to Disconnected; a closed event that follows a local
\* stop() leaves the status as it is.
C12_RemoteCloseDisconnects ==
  [][\A g \in Gens :
       OnClose(g) =>
         /\ (transport[g] = "open" /\ ~stopped[g] /\ status = "connected")
              => status' = "disconnected"
         /\ stopped[g] => status' = status]_vars

\* C13 as stated: in every state the cursor is unset or not behind the
\* current time of the output device.
C13_CursorNeverBehind ==
  \A g \in Gens :
    outputCtx[g] = "open"
      => (nextStartTimeRef = 0 \/ nextStartTimeRef >= devTime[g])

\* C13 as amended: the cursor is unset or is the end of the frame scheduled
\* last, and that frame was given a start not before the device time read
\* when it was scheduled; between two frames the device time may pass the
\* cursor.
C13_CursorAheadWhenScheduled ==
  \/ nextStartTimeRef = 0
  \/ /\ nodes # <<>>
     /\ nextStartTimeRef = nodes[Len(nodes)].end
     /\ nodes[Len(nodes)].start >= nodes[Len(nodes)].now

\* A frame was scheduled at a device time after 0 and the clock has since
\* passed the cursor it left.
C13_Witness ==
  /\ nodes # <<>>
  /\ nodes[Len(nodes)].now > 0
  /\ nextStartTimeRef = nodes[Len(nodes)].end
  /\ \E g \in Gens : outputCtx[g] = "open" /\ devTime[g] > nextStartTimeRef

\* Buffer source i is scheduled or playing: it was started, has neither
\* ended nor been stopped, and its output context is open.
Playing(i) == nodes[i].st = "scheduled" /\ outputCtx[nodes[i].g] = "open"

\* C14: the handle set holds exactly the buffers that have neither ended nor
\* been stopped: every handle in it is such a buffer, and no buffer outside
\* it is still scheduled or playing.
C14_HandlesAreTheLiveBuffers ==
  /\ \A i \in sourcesRef : i \in DOMAIN nodes /\ nodes[i].st = "scheduled"
  /\ \A i \in DOMAIN nodes : Playing(i) => i \in sourcesRef

\* startVisualizer runs: onopen is the only caller.
VisualizerStarts == \E g \in Gens, e \in Energies : OnOpen(g, e)

\* C15: the published volume is within [0,100] whatever energy the analyser
\* reports, and once stopVisualizer has run (it leaves animationFrameRef
\* null) the volume stays 0 until the visualizer is started again.
C15_VolumeInRangeAndZeroWhenStopped ==
  [][/\ volume' \in 0..100
     /\ \A a \in 0..255 : VolumeOf(a) \in 0..100
     /\ (animationFrameRef = 0 /\ ~VisualizerStarts) => volume' = 0]_vars

\* C16: a teardown (stopSession, onclose or onerror) leaves no visualizer
\* tick scheduled: every animation frame that was requested is cancelled.
C16_TeardownCancelsEveryTick ==
  [][(lastWasStop' \/ \E g \in Gens : OnClose(g) \/ OnError(g))
       => rafLoops' = {}]_vars

\* The frames 1..n in capture order.
InOrder(n) == [i \in 1..n |-> i]

\* The frame numbers of a log of sent frames.
Numbers(log) == [i \in 1..Len(log) |-> log[i].n]

\* C17: every frame the capture callback produced is handed to the transport
\* exactly once and in capture order, the frames captured before the session
\* promise resolved included: those wait on the promise, in order, and are
\* handed over first when it resolves.
C17_FramesSentOnceInOrder ==
  \A g \in Gens :
    /\ Numbers(sentLog[g]) \o thenQueue[g] = InOrder(captured[g])
    /\ Resolved(g) => thenQueue[g] = <<>>
    /\ sentFrames[g] = Len(sentLog[g])

\* Two frames were handed over in order, the first captured before the
\* session promise resolved and the second after.
C17_Witness ==
  \E g \in Gens :
    /\ Len(sentLog[g]) >= 2
    /\ sentLog[g][1].early
    /\ ~sentLog[g][Len(sentLog[g])].early
    /\ Numbers(sentLog[g]) = InOrder(captured[g])

\* C18: a frame whose decoding fails is skipped: the handler changes neither
\* the status, the cursor, the handle set nor the remote-speaking flag,
\* schedules nothing, arms no timer and surfaces no error, so the next valid
\* frame is scheduled from the state the failed frame found.
C18_FailedFrameIsSkipped ==
  [][\A p \in pending :
       (~p.ok /\ ~p.intr /\ ResumeHandler(p))
         => UNCHANGED <<status, isActive, errorMsg, nextStartTimeRef,
                        sourcesRef, isModelSpeaking, nodes,
                        modelSpeakingTimeoutRef>>]_vars

\* A frame was skipped while the remote side was speaking, and the frame
\* scheduled before it is still the last one.
C18_Witness ==
  /\ skipped > 0
  /\ pending = {}
  /\ nodes # <<>>
  /\ isModelSpeaking
  /\ nextStartTimeRef = nodes[Len(nodes)].end

\* C20: the handler of a successfully decoded chunk sets the remote-speaking
\* flag, the handling of an interrupted event clears it, and the flag only
\* turns from false to true in a step that schedules a chunk.
C20_FlagFollowsChunksAndInterrupts ==
  [][/\ \A p \in pending :
          (p.ok /\ ~p.intr /\ ResumeHandler(p)) => isModelSpeaking'
     /\ InterruptStep => ~isModelSpeaking'
     /\ (~isModelSpeaking /\ isModelSpeaking')
          => \E p \in pending : p.ok /\ ResumeHandler(p)]_vars

\* An interrupted event has stopped a scheduled chunk and cleared the flag,
\* and no audio message has arrived since.
C20_Witness ==
  /\ awaitFirst
  /\ ~isModelSpeaking
  /\ \E i \in DOMAIN nodes : nodes[i].st = "stopped"

\* The output clock has reached the cursor and no frame is being decoded.
CaughtUp ==
  /\ pending = {}
  /\ audioContextRef # 0
  /\ devTime[audioContextRef] >= nextStartTimeRef

\* C19: once the device time has caught up with the cursor and no frame is
\* pending, a remote-speaking flag that is set is eventually cleared.
C19_FlagEventuallyCleared ==
  (isModelSpeaking /\ CaughtUp) ~> ~isModelSpeaking

\* The moves of the status the state machine of the session allows; a new
\* start after an error is the first move of the next session, and a stop
\* in the state Error leads to Disconnected.
AllowedMoves ==
  {<<"disconnected", "connecting">>, <<"connecting", "connected">>,
   <<"connected", "disconnected">>, <<"connected", "error">>,
   <<"connecting", "error">>, <<"connecting", "disconnected">>,
   <<"error", "connecting">>, <<"error", "disconnected">>}

\* C21: the status only moves along Disconnected -> Connecting -> Connected
\* -> {Disconnected | Error}, with Connecting -> Error or Disconnected on a
\* failure or a stop; Connected is entered from Connecting only.
C21_StatusMovesAlongTheMachine ==
  [][status' # status => <<status, status'>> \in AllowedMoves]_vars

\* C22: the scheduling step of a frame is one uninterrupted step: the device
\* time and the cursor it works with are those of the state in which it
\* writes, and the cursor and the handle set it leaves are computed from
\* them, with no other event in between.
C22_SchedulingStepIsAtomic ==
  [][\A p \in pending :
       (p.ok /\ ResumeHandler(p)) =>
         /\ Len(nodes') = Len(nodes) + 1
         /\ nodes'[Len(nodes')].now = devTime[p.g]
         /\ NewStart = StartTimeFor(nextStartTimeRef, devTime[p.g])
         /\ ~p.intr => /\ nextStartTimeRef' = NewStart + p.dur
                       /\ sourcesRef' = sourcesRef \cup {Len(nodes')}]_vars

\* A frame was scheduled while the handler of another message was still
\* suspended at its awaits.
C22_Witness ==
  /\ nodes # <<>>
  /\ \E p \in pending : p.ok /\ p.arr < nodes[Len(nodes)].now

\* C23: a turnComplete event changes neither the status, the cursor, the
\* handle set nor the remote-speaking flag, and stops or schedules nothing.
C23_TurnCompleteChangesNothing ==
  [][(\E g \in Gens : OnMessageControl(g, FALSE, TRUE))
       => UNCHANGED <<status, isActive, nextStartTimeRef, sourcesRef,
                      isModelSpeaking, nodes, modelSpeakingTimeoutRef>>]_vars

\* The first message carried audio and its handler is still suspended; the
\* second message was handled since and left no trace: it carried neither
\* audio nor an interruption, so it was a turnComplete.
C23_Witness ==
  /\ msgCount = 2
  /\ nodes = <<>>
  /\ skipped = 0
  /\ ~awaitFirst
  /\ \E p \in pending : p.id = 1 /\ p.ok /\ pending = {p}

\* C24: every frame starts at the cursor as the underrun check leaves it,
\* which is never before the device time read in the same step.
C24_NoFrameStartsInThePast ==
  \A i \in DOMAIN nodes :
    /\ nodes[i].start >= nodes[i].now
    /\ (i \in Chained /\ nodes[i].now <= nodes[i - 1].end)
         => nodes[i].start = nodes[i - 1].end

\* A frame scheduled after an underrun starts at the device time plus the
\* safety margin, and a frame scheduled at device time 0 starts at 0.
C24_Witness ==
  /\ \E i \in DOMAIN nodes :
       nodes[i].now > 0 /\ nodes[i].start = nodes[i].now + SAFETY_MARGIN
  /\ \E i \in DOMAIN nodes : nodes[i].now = 0 /\ nodes[i].start = 0

\* C26: no frame whose message arrived before an interrupted event is
\* scheduled after that interruption is handled, the frames whose handlers
\* were still suspended at an await included; and a frame that came in the
\* same message as the interrupted flag is not left playing.
C26_NoFrameSurvivesTheFlush ==
  [][\A p \in pending :
       (p.ok /\ ResumeHandler(p)) =>
         /\ ~p.late
         /\ p.intr => nodes'[Len(nodes')].st = "stopped"]_vars

IndexOf(list, id) ==
  IF \E i \in DOMAIN list : list[i].id = id
  THEN CHOOSE i \in DOMAIN list :
         list[i].id = id /\ \A j \in 1..(i - 1) : list[j].id # id
  ELSE 0

\* SaveSession with the session put on top whether its id is stored or not.
SaveSessionOnTop(list, session) ==
  LET updated == <<session>> \o list
  IN IF Len(updated) > HISTORY_LIMIT
     THEN SubSeq(updated, 1, Len(updated) - 1) ELSE updated

\* saveSession: replace the stored session of the same id, or put the
\* session on top; drop the last one when the list exceeds the limit.
SaveSession(list, session) ==
  LET index == IndexOf(list, session.id)
      updated == IF index > 0 THEN [list EXCEPT ![index] = session]
                 ELSE <<session>> \o list
  IN IF Len(updated) > HISTORY_LIMIT
     THEN SubSeq(updated, 1, Len(updated) - 1) ELSE updated

\* deleteSession: the stored list without the sessions of that id.
DeleteSession(list, id) ==
  LET Keep(x) == x.id # id IN SelectSeq(list, Keep)

\* A message of a chat: the greeting is number 0, prompt n and the reply to
\* prompt n carry the number n.
Greeting == [role |-> "model", n |-> 0, isError |-> FALSE]

\* createNewSession at the time now.
CreateNewSession(now) == [id |-> now, messages |-> <<Greeting>>]

\* The history drawer after the auto-save effect ran for the session.
HistoryWith(list, session) ==
  LET index == IndexOf(list, session.id)
  IN IF index > 0 THEN [list EXCEPT ![index] = session]
     ELSE <<session>> \o list

\* The auto-save effect, which runs after every change of currentSession:
\* the session is saved and the drawer updated when it has messages.
AutoSave(store, drawer, session) ==
  /\ histStore' = IF Len(session.messages) > 0
                  THEN SaveSession(store, session) ELSE store
  /\ history' = IF Len(session.messages) > 0
                THEN HistoryWith(drawer, session) ELSE drawer

\* The component mounts: useState creates a first session, the load effect
\* reads the stored history and shows its first session or a new one, and
\* the auto-save effect runs for the first session and for the one shown.
\* same: the two calls of Date.now() fall in the same millisecond.
ChatMount(same) ==
  /\ currentSession = NoSession
  /\ nextId + 1 <= MaxChats
  /\ LET initial == CreateNewSession(nextId)
         loaded == histStore
         shown == IF Len(loaded) > 0 THEN loaded[1]
                  ELSE CreateNewSession(IF same THEN nextId ELSE nextId + 1)
     IN /\ currentSession' = shown
        /\ AutoSave(SaveSession(histStore, initial),
                    HistoryWith(loaded, initial), shown)
  /\ nextId' = nextId + 2
  /\ UNCHANGED <<isLoading, config, inflight, nPrompts, authVars, liveVars>>

\* handleNewChat: a new session is shown; nothing looks at isLoading.
HandleNewChat ==
  /\ currentSession # NoSession
  /\ nextId <= MaxChats
  /\ currentSession' = CreateNewSession(nextId)
  /\ AutoSave(histStore, history, CreateNewSession(nextId))
  /\ nextId' = nextId + 1
  /\ UNCHANGED <<isLoading, config, inflight, nPrompts, authVars, liveVars>>

\* loadSession: a session of the drawer is shown.
LoadSession(k) ==
  /\ currentSession # NoSession
  /\ k \in DOMAIN history
  /\ history[k] # currentSession
  /\ currentSession' = history[k]
  /\ AutoSave(histStore, history, history[k])
  /\ UNCHANGED <<isLoading, config, inflight, nPrompts, nextId, authVars,
                 liveVars>>

\* handleDeleteSession: the session is deleted from the store; when it is
\* the one shown, the first stored session or a new one is shown.
HandleDeleteSession(k) ==
  /\ currentSession # NoSession
  /\ k \in DOMAIN history
  /\ LET id == history[k].id
         updatedHistory == DeleteSession(histStore, id)
     IN IF currentSession.id = id
        THEN IF Len(updatedHistory) > 0
             THEN /\ currentSession' = updatedHistory[1]
                  /\ AutoSave(updatedHistory, updatedHistory,
                              updatedHistory[1])
                  /\ nextId' = nextId
             ELSE /\ nextId <= MaxChats
                  /\ currentSession' = CreateNewSession(nextId)
                  /\ AutoSave(updatedHistory, updatedHistory,
                              CreateNewSession(nextId))
                  /\ nextId' = nextId + 1
        ELSE /\ histStore' = updatedHistory
             /\ history' = updatedHistory
             /\ UNCHANGED <<currentSession, nextId>>
  /\ UNCHANGED <<isLoading, config, inflight, nPrompts, authVars, liveVars>>

\* handleSend: the prompt is appended to the session shown and the request
\* leaves; the reply is awaited.
HandleSend ==
  /\ currentSession # NoSession
  /\ ~isLoading
  /\ nPrompts < MaxPrompts
  /\ LET userMsg == [role |-> "user", n |-> nPrompts + 1, isError |-> FALSE]
         shown == [currentSession EXCEPT !.messages = Append(@, userMsg)]
     IN /\ currentSession' = shown
        /\ AutoSave(histStore, history, shown)
  /\ isLoading' = TRUE
  /\ inflight' = [n |-> nPrompts + 1, from |-> currentSession.id]
  /\ nPrompts' = nPrompts + 1
  /\ UNCHANGED <<config, nextId, authVars, liveVars>>

\* handleSend after its await: generateResponse returned (ok) or threw; the
\* reply or the error message is appended with setCurrentSession(prev => ..).
ReplyArrives(ok) ==
  /\ inflight # NoRequest
  /\ LET modelMsg == [role |-> "model", n |-> inflight.n, isError |-> ~ok]
         shown == [currentSession EXCEPT !.messages = Append(@, modelMsg)]
     IN /\ currentSession' = shown
        /\ AutoSave(histStore, history, shown)
  /\ isLoading' = FALSE
  /\ inflight' = NoRequest
  /\ UNCHANGED <<config, nPrompts, nextId, authVars, liveVars>>

\* ToggleSearchOf with the reasoning switch left as it is.
ToggleSearchKeeps(c) == [c EXCEPT !.useSearch = ~c.useSearch]

\* toggleSearch and toggleReasoning: the switch is flipped and the other
\* one is turned off.
ToggleSearchOf(c) == [useSearch |-> ~c.useSearch, useReasoning |-> FALSE]
ToggleReasoningOf(c) == [useSearch |-> FALSE, useReasoning |-> ~c.useReasoning]

ToggleSearch ==
  /\ config' = ToggleSearchOf(config)
  /\ UNCHANGED <<currentSession, history, isLoading, inflight, nPrompts,
                 storeVars, authVars, liveVars>>

ToggleReasoning ==
  /\ config' = ToggleReasoningOf(config)
  /\ UNCHANGED <<currentSession, history, isLoading, inflight, nPrompts,
                 storeVars, authVars, liveVars>>

\* The chat: sessions are opened, loaded and deleted, prompts are sent and
\* answered, and the two switches are flipped, in any order.
NextChat ==
  \/ \E same \in BOOLEAN : ChatMount(same)
  \/ HandleNewChat
  \/ \E k \in 1..MaxChats : LoadSession(k)
  \/ \E k \in 1..MaxChats : HandleDeleteSession(k)
  \/ HandleSend
  \/ \E ok \in BOOLEAN : ReplyArrives(ok)
  \/ ToggleSearch
  \/ ToggleReasoning

SpecChat == Init /\ [][NextChat]_vars

\* C27: the reply of the model, or the error message, is appended to the
\* chat session the prompt was sent from, whatever the user did while the
\* request was in flight.
C27_ReplyJoinsItsPrompt ==
  [][(\E ok \in BOOLEAN : ReplyArrives(ok))
       => /\ currentSession'.id = inflight.from
          /\ currentSession.messages[Len(currentSession.messages)]
               = [role |-> "user", n |-> inflight.n, isError |-> FALSE]]_vars

\* C30: useSearch and useReasoning are never both on.
C30_SearchAndReasoningExclusive ==
  ~(config.useSearch /\ config.useReasoning)

\* Search was turned on after reasoning, or reasoning after search: one of
\* the two is on while a prompt was sent and answered in between.
C30_Witness ==
  /\ config.useSearch
  /\ ~config.useReasoning
  /\ nPrompts > 0

\* ------------------------------------------------------- history service

\* The sessions that are saved again after they were first saved, and
\* deleted: the oldest one and the first one past the limit.
ProbeIds == {1, HISTORY_LIMIT + 1}

\* The messages of a saved session: the greeting alone, or the greeting and
\* a prompt.
MessagesAt(rev) ==
  IF rev = 0 THEN <<Greeting>>
  ELSE <<Greeting, [role |-> "user", n |-> 1, isError |-> FALSE]>>

\* saveSession is called with a session made just now, or with one of the
\* probe sessions while it is stored.
SaveSessionCall(id, rev) ==
  /\ \/ id = nextId /\ rev = 0 /\ nextId <= MaxIds
     \/ id \in ProbeIds /\ IndexOf(histStore, id) > 0
  /\ histStore' = SaveSession(histStore, [id |-> id, messages |-> MessagesAt(rev)])
  /\ nextId' = IF id = nextId THEN nextId + 1 ELSE nextId
  /\ UNCHANGED <<chatVars, authVars, liveVars>>

\* deleteSession is called with the id of a probe session, or with an id
\* that was never saved (0).
DeleteSessionCall(id) ==
  /\ histStore' = DeleteSession(histStore, id)
  /\ UNCHANGED <<nextId, chatVars, authVars, liveVars>>

\* clearAllHistory: the storage key is removed.
ClearAllHistory ==
  /\ histStore' = <<>>
  /\ UNCHANGED <<nextId, chatVars, authVars, liveVars>>

\* The history service called in any order, from the empty store.
NextHistory ==
  \/ \E id \in ProbeIds \cup {nextId}, rev \in {0, 1} : SaveSessionCall(id, rev)
  \/ \E id \in ProbeIds \cup {0} : DeleteSessionCall(id)
  \/ ClearAllHistory

SpecHistory == Init /\ [][NextHistory]_vars

\* C28: from the empty store, after any calls of saveSession, deleteSession
\* and clearAllHistory the history holds at most 50 sessions with pairwise
\* distinct ids; saving a stored id replaces that session in place and
\* leaves the length alone; saving a new id puts the session first and
\* drops the last one when the list would exceed 50.
C28_HistoryBoundedAndDistinct ==
  [][/\ Len(histStore') <= HISTORY_LIMIT
     /\ Cardinality({histStore'[i].id : i \in DOMAIN histStore'})
          = Len(histStore')
     /\ \A id \in ProbeIds \cup {nextId}, rev \in {0, 1} :
          SaveSessionCall(id, rev) =>
            LET session == [id |-> id, messages |-> MessagesAt(rev)]
                index == IndexOf(histStore, id)
            IN IF index > 0
               THEN histStore' = [histStore EXCEPT ![index] = session]
               ELSE /\ histStore'[1] = session
                    /\ Len(histStore') =
                         Min(Len(histStore) + 1, HISTORY_LIMIT)
                    /\ \A i \in 2..Len(histStore') :
                         histStore'[i] = histStore[i - 1]]_vars

\* The store is full, the oldest session was dropped for a newer one, and a
\* session further down was replaced in place.
C28_Witness ==
  /\ Len(histStore) = HISTORY_LIMIT
  /\ histStore[1].id > HISTORY_LIMIT + 1
  /\ \A i \in DOMAIN histStore : histStore[i].id # 1
  /\ \E i \in 2..Len(histStore) : histStore[i].messages = MessagesAt(1)

\* ------------------------------------------------------- account service

\* An e-mail is a sequence of characters; one letter in both cases and the
\* space are enough to tell trim and toLowerCase apart from the identity.
Chars == {"a", "A", " "}
Emails == UNION {[1..k -> Chars] : k \in 0..MaxLen}

\* The passwords typed: none, the one registered with, another one.
Passwords == {"", "p", "q"}

\* String.prototype.trim: the spaces at both ends are removed.
RECURSIVE TrimStart(_)
TrimStart(str) ==
  IF str # <<>> /\ Head(str) = " " THEN TrimStart(Tail(str)) ELSE str

RECURSIVE TrimEnd(_)
TrimEnd(str) ==
  IF str # <<>> /\ str[Len(str)] = " "
  THEN TrimEnd(SubSeq(str, 1, Len(str) - 1)) ELSE str

Trim(str) == TrimEnd(TrimStart(str))

\* String.prototype.toLowerCase.
ToLowerCase(str) == [i \in DOMAIN str |-> IF str[i] = "A" THEN "a" ELSE str[i]]

\* CleanEmail without the trim.
CleanEmailUntrimmed(email) == ToLowerCase(email)

\* cleanEmail = email.trim().toLowerCase()
CleanEmail(email) == ToLowerCase(Trim(email))

\* users.find(u => u.email.toLowerCase() === cleanEmail): the index of the
\* first such user, 0 when there is none.
FindUser(users, cleanEmail) ==
  IF \E i \in DOMAIN users : ToLowerCase(users[i].email) = cleanEmail
  THEN CHOOSE i \in DOMAIN users :
         /\ ToLowerCase(users[i].email) = cleanEmail
         /\ \A j \in 1..(i - 1) : ToLowerCase(users[j].email) # cleanEmail
  ELSE 0

\* registerUser after its delay: the e-mail is cleaned, the call throws
\* when e-mail or password is empty or the e-mail is taken, else the user
\* is stored and made the active session.
RegisterUser(email, password) ==
  LET cleanEmail == CleanEmail(email)
      newUser == [email |-> cleanEmail, password |-> password]
  IN /\ IF cleanEmail = <<>> \/ password = ""
        THEN /\ authResult' = "required"
             /\ UNCHANGED <<usersDb, activeUser>>
        ELSE IF FindUser(usersDb, cleanEmail) > 0
        THEN /\ authResult' = "exists"
             /\ UNCHANGED <<usersDb, activeUser>>
        ELSE /\ Len(usersDb) < MaxUsers
             /\ usersDb' = Append(usersDb, newUser)
             /\ activeUser' = newUser
             /\ authResult' = "registered"
     /\ UNCHANGED <<chatVars, storeVars, liveVars>>

\* loginUser after its delay: the stored user of the cleaned e-mail becomes
\* the active session when the password matches.
LoginUser(email, password) ==
  LET cleanEmail == CleanEmail(email)
      index == FindUser(usersDb, cleanEmail)
  IN /\ IF index = 0
        THEN /\ authResult' = "notfound"
             /\ UNCHANGED activeUser
        ELSE IF usersDb[index].password # password
        THEN /\ authResult' = "password"
             /\ UNCHANGED activeUser
        ELSE /\ activeUser' = usersDb[index]
             /\ authResult' = "loggedIn"
     /\ UNCHANGED <<usersDb, chatVars, storeVars, liveVars>>

\* Registrations and logins in any order, from the empty user store.
NextAuth ==
  \/ \E email \in Emails, password \in Passwords : RegisterUser(email, password)
  \/ \E email \in Emails, password \in Passwords : LoginUser(email, password)

SpecAuth == Init /\ [][NextAuth]_vars

\* The registration of this e-mail and password has to fail: one of them is
\* empty, or a stored user has the e-mail after trim and lowercase.
MustFail(email, password) ==
  \/ Trim(email) = <<>>
  \/ password = ""
  \/ \E i \in DOMAIN usersDb :
       ToLowerCase(Trim(usersDb[i].email)) = ToLowerCase(Trim(email))

\* C29: no two stored users have the same e-mail after trim and lowercase;
\* a registration with a taken e-mail, or with an empty e-mail or password,
\* fails and leaves the user store and the active session as they were:
\* every change of the store, which starts empty, leaves the e-mails
\* distinct, a call that threw changed neither store nor session, and a
\* registration that returned was not one that had to fail.
C29_EmailsUniqueAndFailuresInert ==
  [][/\ usersDb' # usersDb =>
          \A i, j \in DOMAIN usersDb' :
            ToLowerCase(Trim(usersDb'[i].email))
              = ToLowerCase(Trim(usersDb'[j].email)) => i = j
     /\ authResult' \in {"required", "exists", "notfound", "password"}
          => UNCHANGED <<usersDb, activeUser>>
     /\ authResult' = "registered"
          => \A email \in Emails, password \in Passwords :
               MustFail(email, password) => ~RegisterUser(email, password)]_vars

\* Two users are stored, the first is logged in again, and a registration
\* with a taken e-mail was just refused.
C29_Witness ==
  /\ Len(usersDb) = 2
  /\ activeUser = usersDb[1]
  /\ authResult = "exists"

====
